---- MODULE Spec2Model ----
(***************************************************************************)
(* EmiralUserData (src/js/auth-popups.js, lines 2227-3585): the            *)
(* centralized client-side user data manager, one instance per browser     *)
(* tab, all tabs sharing one localStorage area.                            *)
(*                                                                         *)
(* A JavaScript object is a function from its property names to their      *)
(* values; a property that is absent (or undefined) is not in its DOMAIN.  *)
(* The values null, true, false, undefined and a thrown exception are the  *)
(* one-field records Null, True, False, Undefined and Throw, so that every *)
(* result is a record.  Time is counted in days (the unit of               *)
(* daysRemaining) and dates are integers.  Of the enriched record the      *)
(* fields id, profileImage, the dates inside metrics and the timestamps    *)
(* inside session are left out: generated values that no operation below   *)
(* reads back.  The browser offers BroadcastChannel, so _notifyOtherTabs   *)
(* posts on the channel and writes nothing to localStorage.                *)
(***************************************************************************)
EXTENDS Integers, Sequences, FiniteSets, TLC

VARIABLES
    storage,        \* localStorage, shared by the tabs: key -> object or Null
    now,            \* the clock, new Date()
    currentUser,    \* per tab: _state.currentUser
    offlineQueue,   \* per tab: _state.offlineQueue
    syncInterval,   \* per tab: whether _state.syncInterval holds a live timer
    inbox,          \* per tab: 'storage' events dispatched to it, not yet handled
    open,           \* the tabs that have the page open
    access,         \* how the browser answers a localStorage call: "ok", "full", "denied"
    memoryStorage,  \* per tab: _memoryStorage, or Null while _useMemoryStorage is unset
    listeners,      \* per tab: _state.listeners, event name -> callbacks as registered
    boot,           \* per tab: how far the calls of init have come, and what they set up
    payment,        \* per tab: EmiralPayment's isProcessing flag and its pending timer
    last            \* the step just taken: tab, op, arg, ret, the events it emitted

vars == <<storage, now, currentUser, offlineQueue, syncInterval, inbox, open, access,
          memoryStorage, listeners, boot, payment, last>>

Null == [null |-> TRUE]
True == [bool |-> TRUE]
False == [bool |-> FALSE]
Undefined == [undefined |-> TRUE]
Throw == [throws |-> TRUE]
Bool(b) == IF b THEN True ELSE False

\* A number of days, and Math.ceil(NaN), which compares false with every number
Days(n) == [days |-> n]
NaN == [nan |-> TRUE]

\* ------------------------------------------------------------------ bounds
MaxTime == 2
MaxQueue == 1
MaxInbox == 2
MaxInits == 2

Tabs == {"A", "B"}

\* ------------------------------------------------------------ configuration
userDataKey == "user_data"
subscriptionKey == "subscription"
settingsKey == "settings"
offlineQueueKey == "offline_queue"
StorageKeys == {userDataKey, subscriptionKey, settingsKey, offlineQueueKey}

plans ==
    [free       |-> [id |-> "free", name |-> "Free Plan", price |-> 0, apiLimit |-> 1000],
     basic      |-> [id |-> "basic", name |-> "Basic Plan", price |-> 29, apiLimit |-> 10000],
     pro        |-> [id |-> "pro", name |-> "Pro Plan", price |-> 99, apiLimit |-> 100000],
     enterprise |-> [id |-> "enterprise", name |-> "Enterprise Plan", price |-> 299, apiLimit |-> -1]]

\* What a plain object inherits from Object.prototype: here its constructor,
\* the function named "Object" (it has no id, price or limits)
ObjectPrototype == [constructor |-> [name |-> "Object"]]

\* this.config.plans[planId]: an own entry, an inherited member, or undefined
PlanLookup(planId) ==
    IF planId \in DOMAIN plans THEN plans[planId]
    ELSE IF planId \in DOMAIN ObjectPrototype THEN ObjectPrototype[planId]
    ELSE Undefined

\* Object.keys(this.config.plans), in insertion order
planHierarchy == <<"free", "basic", "pro", "enterprise">>

\* Array.prototype.indexOf: the 0-based position, -1 when absent
indexOf(seq, x) ==
    IF \E i \in 1..Len(seq) : seq[i] = x
    THEN (CHOOSE i \in 1..Len(seq) : seq[i] = x /\ \A j \in 1..(i - 1) : seq[j] # x) - 1
    ELSE -1

PaidPlanDays == 30
FreePlanDays == 36500
ExpiringSoonDays == 7

\* ------------------------------------------------------------------ objects
EmptyObject == [f \in {} |-> TRUE]

Has(o, f) == f \in DOMAIN o

\* { ...target, ...source }: the properties of source win
Spread(target, source) == source @@ target

\* const { a, b, ...rest } = o
Omit(o, fields) == [f \in DOMAIN o \ fields |-> o[f]]

\* JSON.parse(JSON.stringify(value)): absent properties stay absent and NaN is
\* written as null
JsonRoundTrip(value) ==
    IF Has(value, "daysRemaining") /\ value.daysRemaining = NaN
    THEN [value EXCEPT !.daysRemaining = Null]
    ELSE value

\* The characters of the e-mail strings the model uses
Chars ==
    ("ada@example.com" :> <<"a","d","a","@","e","x","a","m","p","l","e",".","c","o","m">>) @@
    ("bad-email" :> <<"b","a","d","-","e","m","a","i","l">>) @@
    ("guest@emiralai.com" :>
        <<"g","u","e","s","t","@","e","m","i","r","a","l","a","i",".","c","o","m">>)

\* String.prototype.charCodeAt
charCodeAt ==
    [a |-> 97, b |-> 98, c |-> 99, d |-> 100, e |-> 101, g |-> 103, i |-> 105, l |-> 108,
     m |-> 109, o |-> 111, p |-> 112, r |-> 114, s |-> 115, t |-> 116, u |-> 117, x |-> 120] @@
    ("@" :> 64) @@ ("." :> 46) @@ ("-" :> 45)

\* ----------------------------------------------------------- the tab's world
\* What one synchronous call in a tab reads and writes: storage, the tab's
\* _state, the events emitted during the call (ev) and the storage-change
\* signals its writes raise in the other tabs (sig).
World(t) ==
    [storage |-> storage, cur |-> currentUser[t], queue |-> offlineQueue[t],
     sync |-> syncInterval[t], ev |-> <<>>, sig |-> <<>>,
     access |-> access, mem |-> memoryStorage[t],
     listeners |-> listeners[t], calls |-> <<>>,
     boot |-> boot[t], payment |-> payment[t]]

\* ------------------------------------------------------------- localStorage
\* The browser's answers: with "ok" every call works; with "full" setItem throws
\* (the quota is exceeded) and the other calls work; with "denied" every call
\* throws (storage is blocked for the page).
AccessModes == {"ok", "full", "denied"}
setItemThrows(w) == w.access # "ok"
getItemThrows(w) == w.access = "denied"
removeItemThrows(w) == w.access = "denied"

\* init: after _initializeStorage, _loadCache calls localStorage.getItem outside
\* any try block of its own; when that throws, init is rejected before
\* _setupEventListeners and _startDataSync have run
initCompletes(mode) == mode # "denied"

\* config.storage.prefix as shipped, and the prefix of the integration guide
defaultPrefix == "emiralai_"
buyerPrefix == "myapp_"

\* A page on which the automatic init has run to its end: the listeners of
\* _setupEventListeners registered once, no interval lost, initialized announced
Booted(mode) ==
    [initialized |-> initCompletes(mode), pending |-> <<>>, prefix |-> defaultPrefix,
     handlers |-> IF initCompletes(mode) THEN 1 ELSE 0, leaked |-> 0,
     announced |-> IF initCompletes(mode) THEN 1 ELSE 0]

\* EmiralPayment.state on a fresh page
Idle == [isProcessing |-> FALSE, timer |-> ""]

\* _initializeStorage: the probe writes and removes a test key; when it throws,
\* _useMemoryStorage is set and _memoryStorage is a new, empty Map
_initializeStorage(mode) ==
    IF mode = "ok" THEN Null ELSE [k \in StorageKeys |-> Null]

\* ------------------------------------------------------------ Storage Adapter
\* The keys _handleStorageChange acts on; a signal for any other key reaches the
\* listener and is dropped by its switch, so none is recorded.
HandledKeys == {userDataKey, subscriptionKey}

\* localStorage.setItem / removeItem raise a storage event in the other tabs
\* when the stored value changes
Signal(w, key, value) ==
    IF key \in HandledKeys /\ w.storage[key] # value
    THEN Append(w.sig, [key |-> key, removed |-> value = Null])
    ELSE w.sig

\* The Map when _useMemoryStorage is set (a missing key gives undefined, falsy
\* as null is), else localStorage.getItem; an exception is caught: null
_getFromStorage(w, key) ==
    IF w.mem # Null THEN w.mem[key]
    ELSE IF getItemThrows(w) THEN Null
    ELSE w.storage[key]

\* The Map keeps the value itself; localStorage keeps its serialization.  An
\* exception is caught (the function returns false) and nothing is stored.
_saveToStorage(w, key, value) ==
    IF w.mem # Null THEN [w EXCEPT !.mem[key] = value]
    ELSE IF setItemThrows(w) THEN w
    ELSE LET serialized == JsonRoundTrip(value) IN
         [w EXCEPT !.storage[key] = serialized, !.sig = Signal(w, key, serialized)]

_removeFromStorage(w, key) ==
    IF w.mem # Null THEN [w EXCEPT !.mem[key] = Null]
    ELSE IF removeItemThrows(w) THEN w
    ELSE [w EXCEPT !.storage[key] = Null, !.sig = Signal(w, key, Null)]

\* ---------------------------------------------------------------- Broadcaster
\* The callbacks a page registers: one that returns, one that throws, and one
\* that unsubscribes another callback from the event it is called for
Callbacks ==
    [view   |-> [throws |-> FALSE, unsubscribes |-> ""],
     faulty |-> [throws |-> TRUE, unsubscribes |-> ""],
     closer |-> [throws |-> FALSE, unsubscribes |-> "view"]]

Without(callbacks, callback) == SelectSeq(callbacks, LAMBDA c : c # callback)
Registered(w, eventName, callback) ==
    Has(w.listeners, eventName)
    /\ \E i \in 1..Len(w.listeners[eventName]) : w.listeners[eventName][i] = callback

\* on: the event's Set is created when missing, and a Set holds a callback once
on(w, event, callback) ==
    IF ~Has(w.listeners, event)
    THEN [w EXCEPT !.listeners = (event :> <<callback>>) @@ @]
    ELSE IF Registered(w, event, callback) THEN w
    ELSE [w EXCEPT !.listeners[event] = Append(@, callback)]

\* off, and the unsubscribe function on returns
off(w, event, callback) ==
    IF Has(w.listeners, event)
    THEN [w EXCEPT !.listeners[event] = Without(@, callback)]
    ELSE w

\* callback(data): the call is recorded and the callback does its work
call(w, eventName, callback, data) ==
    LET called == [w EXCEPT !.calls = Append(@, [event |-> eventName, callback |-> callback,
                                                data |-> data])]
    IN IF Callbacks[callback].unsubscribes # ""
       THEN off(called, eventName, Callbacks[callback].unsubscribes)
       ELSE called

\* listeners.forEach without the try block around callback(data): the first
\* exception ends the iteration
RECURSIVE _triggerEvent_forEach_Unguarded(_, _, _, _)
_triggerEvent_forEach_Unguarded(w, eventName, data, pending) ==
    IF pending = <<>> THEN w
    ELSE IF ~Registered(w, eventName, Head(pending))
    THEN _triggerEvent_forEach_Unguarded(w, eventName, data, Tail(pending))
    ELSE IF Callbacks[Head(pending)].throws THEN call(w, eventName, Head(pending), data)
    ELSE _triggerEvent_forEach_Unguarded(call(w, eventName, Head(pending), data),
                                         eventName, data, Tail(pending))

\* listeners.forEach: the Set is visited in insertion order, a callback deleted
\* before its turn is not visited, and an exception of callback(data) is caught
RECURSIVE _triggerEvent_forEach(_, _, _, _)
_triggerEvent_forEach(w, eventName, data, pending) ==
    IF pending = <<>> THEN w
    ELSE IF ~Registered(w, eventName, Head(pending))
    THEN _triggerEvent_forEach(w, eventName, data, Tail(pending))
    ELSE _triggerEvent_forEach(call(w, eventName, Head(pending), data),
                               eventName, data, Tail(pending))

\* The internal listeners are called, then the event is dispatched on window
_triggerEvent(w, eventName, data) ==
    [_triggerEvent_forEach(w, eventName, data,
                           IF Has(w.listeners, eventName) THEN w.listeners[eventName]
                           ELSE <<>>)
        EXCEPT !.ev = Append(@, [name |-> eventName, data |-> data])]

\* ------------------------------------------------------------- clearUserData
\* clearUserData without the reset of _state.currentUser
clearUserData_KeepsCache(w, clearSettings) ==
    LET w1 == _removeFromStorage(w, userDataKey)
        w2 == _removeFromStorage(w1, subscriptionKey)
        w3 == IF clearSettings THEN _removeFromStorage(w2, settingsKey) ELSE w2
    IN _triggerEvent([w3 EXCEPT !.sync = FALSE], "userLoggedOut", Null)

\* clearUserData removing the settings whatever clearSettings says
clearUserData_ClearsSettings(w, clearSettings) ==
    LET w1 == _removeFromStorage(w, userDataKey)
        w2 == _removeFromStorage(w1, subscriptionKey)
        w3 == _removeFromStorage(w2, settingsKey)
        w4 == [w3 EXCEPT !.cur = Null, !.sync = FALSE]
    IN _triggerEvent(w4, "userLoggedOut", Null)

clearUserData(w, clearSettings) ==
    LET w1 == _removeFromStorage(w, userDataKey)
        w2 == _removeFromStorage(w1, subscriptionKey)
        w3 == IF clearSettings THEN _removeFromStorage(w2, settingsKey) ELSE w2
        w4 == [w3 EXCEPT !.cur = Null, !.sync = FALSE]
    IN _triggerEvent(w4, "userLoggedOut", Null)

\* ----------------------------------------------------------------- enrichment
_isValidEmail(email) ==
    \* /^[^\s@]+@[^\s@]+\.[^\s@]+$/
    LET s == Chars[email] IN
    \E i \in 1..Len(s), j \in 1..Len(s) :
        /\ s[i] = "@" /\ s[j] = "."
        /\ 1 < i /\ i + 1 < j /\ j < Len(s)
        /\ \A k \in 1..Len(s) : k # i => s[k] \notin {"@", " "}

_validateUserData(data) ==
    /\ data # Null
    /\ Has(data, "email") => _isValidEmail(data.email)
    /\ Has(data, "planId") => PlanLookup(data.planId) # Undefined

\* _isSessionValid taking a missing sessionExpiry for an ended session
_isSessionValid_MissingIsExpired(userData) ==
    Has(userData, "sessionExpiry") /\ now < userData.sessionExpiry

_isSessionValid(userData) ==
    IF ~Has(userData, "sessionExpiry") THEN TRUE ELSE now < userData.sessionExpiry

RECURSIVE SumCharCodes(_)
SumCharCodes(s) == IF s = <<>> THEN 0 ELSE charCodeAt[Head(s)] + SumCharCodes(Tail(s))

DefaultSeed == 42

\* The pseudo-random figures (apiCalls, storageUsed, ...) are functions of the
\* seed and of the plan's limits; the record keeps the seed in their place.
\* A plan without storageLimit makes _calculateStorageUsed throw (limit.replace).
_calculateUsage(planId, userData) ==
    LET plan == PlanLookup(planId) IN
    IF plan = Undefined THEN EmptyObject
    ELSE IF planId \notin DOMAIN plans THEN Throw
    ELSE [seed |-> IF Has(userData, "email") THEN SumCharCodes(Chars[userData.email])
                   ELSE DefaultSeed,
          apiLimit |-> plans[planId].apiLimit,
          accuracy |-> 70 + indexOf(planHierarchy, planId) * 7,
          responseTime |-> 200 - indexOf(planHierarchy, planId) * 25]

_enhanceSubscription(subscription, planData) ==
    IF subscription = Null
    THEN [status |-> "inactive", planId |-> "free", planName |-> "Free Plan"]
    ELSE LET daysRemaining ==
                 IF Has(subscription, "endDate") THEN Days(subscription.endDate - now) ELSE NaN
             derived ==
                 [daysRemaining |-> daysRemaining,
                  isExpiringSoon |-> daysRemaining # NaN /\ daysRemaining.days <= ExpiringSoonDays
                                                        /\ daysRemaining.days > 0,
                  isExpired |-> daysRemaining # NaN /\ daysRemaining.days <= 0,
                  features |-> planData.id]
         IN Spread(subscription, derived)

\* loginCount and totalApiCalls are read with localStorage.getItem, past the
\* storage adapter; no code writes their keys, so the defaults are read
_getUserMetrics(w) ==
    IF getItemThrows(w) THEN Throw ELSE [loginCount |-> 1, totalApiCalls |-> 0]

_getPermissions(planId) ==
    LET planIndex == indexOf(planHierarchy, planId) IN
    [canUseAPI |-> planIndex >= 1,
     canAccessAnalytics |-> planIndex >= 0,
     canUseAdvancedAnalytics |-> planIndex >= 2,
     canRequestCustomFeatures |-> planIndex >= 3,
     showAds |-> planIndex = 0]

\* ---------------------------------------------------------------- getUserData
\* Every operation returns [w |-> the world it leaves, ret |-> its result].
\* The record getUserData builds from the stored pieces
completeUserData(userData, planId, planData, usage, metrics, subscription, settings) ==
    [name |-> IF Has(userData, "name") THEN userData.name ELSE "Guest User",
     email |-> IF Has(userData, "email") THEN userData.email ELSE "guest@emiralai.com",
     plan |-> planData.name,
     planId |-> planId,
     planData |-> planData,
     usage |-> usage,
     subscription |-> _enhanceSubscription(subscription, planData),
     settings |-> IF settings = Null THEN EmptyObject ELSE settings,
     session |-> Spread([isActive |-> TRUE],
                        IF Has(userData, "sessionExpiry")
                        THEN [expiresAt |-> userData.sessionExpiry] ELSE EmptyObject),
     permissions |-> _getPermissions(planId),
     metrics |-> metrics]

\* Cache the record, emit dataLoaded, return it
getUserData_cache(w, record) ==
    [w |-> _triggerEvent([w EXCEPT !.cur = record], "dataLoaded", record), ret |-> record]

\* The enrichment of a stored record under plan planId; an exception thrown while
\* the record is built is caught: null is returned and nothing is cached
getUserData_build(w, userData, subscription, planId, planData, usage, metrics) ==
    IF usage = Throw \/ metrics = Throw THEN [w |-> w, ret |-> Null]
    ELSE getUserData_cache(w, completeUserData(userData, planId, planData, usage, metrics,
                                               subscription, _getFromStorage(w, settingsKey)))

\* userData.planId || subscription?.planId || 'free', then the plan's entry
getUserData_plan(w, userData, subscription, planId) ==
    getUserData_build(w, userData, subscription, planId,
                      IF PlanLookup(planId) # Undefined THEN PlanLookup(planId) ELSE plans.free,
                      _calculateUsage(planId, userData), _getUserMetrics(w))

getUserData_stored(w, userData, subscription) ==
    IF userData = Null THEN [w |-> w, ret |-> Null]
    ELSE IF ~_isSessionValid(userData) THEN [w |-> clearUserData(w, FALSE), ret |-> Null]
    ELSE getUserData_plan(w, userData, subscription,
                          IF Has(userData, "planId") THEN userData.planId
                          ELSE IF subscription # Null /\ Has(subscription, "planId")
                               THEN subscription.planId
                          ELSE "free")

getUserData(w, forceRefresh) ==
    IF ~forceRefresh /\ w.cur # Null THEN [w |-> w, ret |-> w.cur]
    ELSE getUserData_stored(w, _getFromStorage(w, userDataKey),
                            _getFromStorage(w, subscriptionKey))

isLoggedIn(w) ==
    LET g == getUserData(w, FALSE) IN [w |-> g.w, ret |-> Bool(g.ret # Null)]

\* ---------------------------------------------------------------- saveUserData
\* The queue is also written under its own key by localStorage.setItem, past
\* the storage adapter: when that call throws, the item is in the queue and the
\* key is not written
_addToOfflineQueue(w, action, data) ==
    LET queue == Append(w.queue, [action |-> action, data |-> data, timestamp |-> now]) IN
    IF setItemThrows(w) THEN [w EXCEPT !.queue = queue]
    ELSE [w EXCEPT !.queue = queue, !.storage[offlineQueueKey] = [items |-> queue]]

DerivedFields == {"subscription", "settings", "usage", "metrics", "permissions"}

\* if (subscription) save it; if (settings) save it
saveUserData_part(w, updatedData, field, key) ==
    IF Has(updatedData, field) THEN _saveToStorage(w, key, updatedData[field]) ELSE w

\* Update the cache and emit dataUpdated
saveUserData_cache(w, updatedData) ==
    [w |-> _triggerEvent([w EXCEPT !.cur = updatedData], "dataUpdated", updatedData),
     ret |-> True]

\* Separate the derived fields from the record and save each under its key
saveUserData_persist(w, updatedData) ==
    saveUserData_cache(
        saveUserData_part(
            saveUserData_part(
                _saveToStorage(w, userDataKey, Omit(updatedData, DerivedFields)),
                updatedData, "subscription", subscriptionKey),
            updatedData, "settings", settingsKey),
        updatedData)

\* saveUserData_merge without the record read at the start of the call
saveUserData_merge_PatchOnly(g, data) ==
    saveUserData_persist(g.w, Spread(data, [lastModified |-> now]))

\* { ...currentData, ...data, lastModified }, g being what getUserData() gave
saveUserData_merge(g, data) ==
    saveUserData_persist(
        g.w,
        Spread(Spread(IF g.ret = Null THEN EmptyObject ELSE g.ret, data),
               [lastModified |-> now]))

saveUserData(w, data) ==
    IF ~_validateUserData(data)
    THEN \* the catch block; an exception of _addToOfflineQueue leaves it
         [w |-> _addToOfflineQueue(w, "save", data),
          ret |-> IF setItemThrows(w) THEN Throw ELSE False]
    ELSE saveUserData_merge(getUserData(w, FALSE), data)

\* ------------------------------------------------------- _processOfflineQueue
\* One queued item has been replayed with result r: when the replay threw, the
\* item is pushed back
_processOfflineQueue_item(r, item) ==
    IF r.ret = Throw THEN [r.w EXCEPT !.queue = Append(@, item)] ELSE r.w

\* for (const item of queue): case 'save': await this.saveUserData(item.data)
RECURSIVE _processOfflineQueue_items(_, _)
_processOfflineQueue_items(w, queue) ==
    IF queue = <<>> THEN w
    ELSE _processOfflineQueue_items(
             _processOfflineQueue_item(saveUserData(w, Head(queue).data), Head(queue)),
             Tail(queue))

\* Update the stored queue, with localStorage.removeItem or setItem; when the
\* call throws, the promise is rejected and the key is left as it was
_processOfflineQueue_store(w) ==
    IF w.queue = <<>>
    THEN IF removeItemThrows(w) THEN w ELSE [w EXCEPT !.storage[offlineQueueKey] = Null]
    ELSE IF setItemThrows(w) THEN w
    ELSE [w EXCEPT !.storage[offlineQueueKey] = [items |-> w.queue]]

\* The queue is copied and reset, its items are replayed in order
_processOfflineQueue(w, onLine) ==
    IF ~onLine \/ w.queue = <<>> THEN w
    ELSE _processOfflineQueue_store(
             _processOfflineQueue_items([w EXCEPT !.queue = <<>>], w.queue))

\* ------------------------------------------------------------ window events
\* The type of the CustomEvent that _triggerEvent dispatches on window for the
\* event eventName (enableCustomEvents is true)
customEventType(eventName) == "emiralai:" \o eventName

\* The window event on which each UI module refreshes its view of the user
windowListeners ==
    [dashboard |-> "userDataUpdated",
     profile   |-> "userDataUpdated",
     payment   |-> "emiralUserDataUpdated"]

\* The types of the window events dispatched for the emitted events ev
dispatched(ev) == {customEventType(ev[i].name) : i \in 1..Len(ev)}

\* Whether the refresh handler of module m runs for the emitted events ev
refreshed(m, ev) == windowListeners[m] \in dispatched(ev)

\* ------------------------------------------------------------------------ init
\* init up to its first await: a call on an initialized Manager returns at
\* once; else the custom configuration is merged, the storage is probed
\* (_useMemoryStorage is set on failure and never reset) and _loadCache is
\* called, whose exception rejects the call
init(w, customConfig) ==
    IF w.boot.initialized THEN [w |-> w, ret |-> Undefined]
    ELSE IF ~initCompletes(w.access)
    THEN [w |-> [w EXCEPT !.mem = _initializeStorage(w.access)], ret |-> Throw]
    ELSE [w |-> [w EXCEPT !.boot.prefix = IF Has(customConfig, "storage")
                                             /\ Has(customConfig.storage, "prefix")
                                          THEN customConfig.storage.prefix ELSE @,
                          !.mem = IF w.access = "ok" THEN @ ELSE _initializeStorage(w.access),
                          !.boot.pending = Append(@, 1)],
          ret |-> Undefined]

\* After await _loadCache(): _setupEventListeners, _startDataSync (the handle
\* of an interval already running is overwritten) and _processOfflineQueue
init_setup(w) ==
    _processOfflineQueue(
        [w EXCEPT !.boot.handlers = @ + 1,
                  !.boot.leaked = IF w.sync THEN @ + 1 ELSE @,
                  !.sync = TRUE,
                  !.boot.pending = Append(Tail(@), 2)],
        TRUE)

\* After await _processOfflineQueue(): initialized is set and announced
init_finish(w) ==
    _triggerEvent([w EXCEPT !.boot.initialized = TRUE,
                            !.boot.announced = @ + 1,
                            !.boot.pending = Tail(@)],
                  "initialized", Null)

\* The call of init that is first in the microtask queue goes on to its next
\* await, or to its end
init_resume(w) ==
    IF Head(w.boot.pending) = 1 THEN init_setup(w) ELSE init_finish(w)

\* -------------------------------------------------------------- updateUserPlan
_calculateEndDate(planId) ==
    IF planId = "free" THEN now + FreePlanDays ELSE now + PaidPlanDays

\* The subscription object: the defaults, then what the caller gave
updateUserPlan_subscription(planId, planData, given) ==
    Spread([planId |-> planId,
            planName |-> planData.name,
            startDate |-> IF Has(given, "startDate") THEN given.startDate ELSE now,
            endDate |-> IF Has(given, "endDate") THEN given.endDate
                        ELSE _calculateEndDate(planId),
            status |-> "active"],
           Spread(IF Has(planData, "price") THEN [amount |-> planData.price]
                  ELSE EmptyObject,
                  given))

\* planChanged, then the success notification
updateUserPlan_events(w, oldPlan, planId, subscription) ==
    [w |-> _triggerEvent(
               _triggerEvent(w, "planChanged",
                             [oldPlan |-> oldPlan, newPlan |-> planId,
                              subscription |-> subscription]),
               "notification", [type |-> "success"]),
     ret |-> True]

\* Save the subscription, then the user's plan through saveUserData
updateUserPlan_save(w, currentUser_, planId, planData, subscription) ==
    updateUserPlan_events(
        saveUserData(_saveToStorage(w, subscriptionKey, subscription),
                     [planId |-> planId, plan |-> planData.name]).w,
        IF Has(currentUser_, "planId") THEN currentUser_.planId ELSE "undefined",
        planId, subscription)

\* g is what getUserData() gave
updateUserPlan_user(g, planId, planData, given) ==
    IF g.ret = Null THEN [w |-> g.w, ret |-> False]
    ELSE updateUserPlan_save(g.w, g.ret, planId, planData,
                             updateUserPlan_subscription(planId, planData, given))

updateUserPlan(w, planId, subscriptionData) ==
    IF PlanLookup(planId) = Undefined THEN [w |-> w, ret |-> False]
    ELSE updateUserPlan_user(getUserData(w, FALSE), planId, PlanLookup(planId),
                             IF subscriptionData = Null THEN EmptyObject
                             ELSE subscriptionData)

\* ------------------------------------------------------------------ pure reads
\* Reading a property of undefined throws a TypeError; neither hasAccess nor
\* getUsageStats catches it.
hasAccess(w, feature) ==
    LET g == getUserData(w, FALSE) IN
    IF g.ret = Null THEN [w |-> g.w, ret |-> False]
    ELSE IF ~Has(g.ret, "permissions") THEN [w |-> g.w, ret |-> Throw]
    ELSE [w |-> g.w,
          ret |-> Bool(Has(g.ret.permissions, feature) /\ g.ret.permissions[feature] = TRUE)]

hasPlan(w, requiredPlan) ==
    LET g == getUserData(w, FALSE)
        userPlanIndex == IF Has(g.ret, "planId") THEN indexOf(planHierarchy, g.ret.planId)
                         ELSE -1
        requiredPlanIndex == indexOf(planHierarchy, requiredPlan)
    IN IF g.ret = Null THEN [w |-> g.w, ret |-> False]
       ELSE [w |-> g.w, ret |-> Bool(userPlanIndex >= requiredPlanIndex)]

getUsageStats(w, metric) ==
    LET g == getUserData(w, FALSE) IN
    IF g.ret = Null THEN [w |-> g.w, ret |-> Null]
    ELSE IF metric = ""
         THEN [w |-> g.w, ret |-> IF Has(g.ret, "usage") THEN g.ret.usage ELSE Undefined]
    ELSE IF ~Has(g.ret, "usage") THEN [w |-> g.w, ret |-> Throw]
    ELSE [w |-> g.w,
          ret |-> IF Has(g.ret.usage, metric) /\ g.ret.usage[metric] # 0
                  THEN [number |-> g.ret.usage[metric]] ELSE Null]

\* -------------------------------------------------------------- updateSettings
updateSettings(w, settings) ==
    LET stored == _getFromStorage(w, settingsKey)
        currentSettings == IF stored = Null THEN EmptyObject ELSE stored
        updatedSettings == Spread(Spread(currentSettings, settings), [lastModified |-> now])
        w1 == _saveToStorage(w, settingsKey, updatedSettings)
        w2 == IF w1.cur # Null THEN [w1 EXCEPT !.cur = Spread(@, [settings |-> updatedSettings])]
              ELSE w1
    IN [w |-> _triggerEvent(w2, "settingsUpdated", updatedSettings), ret |-> True]

\* -------------------------------------------------------------- importUserData
\* if (data.settings) updateSettings(data.settings); emit dataImported; true
importUserData_settings(w, data) ==
    [w |-> _triggerEvent(IF Has(data, "settings") THEN updateSettings(w, data.settings).w ELSE w,
                         "dataImported", data),
     ret |-> True]

\* saved is what saveUserData(data.userData) gave: its result is not looked at,
\* an exception it throws is caught
importUserData_saved(saved, data) ==
    IF saved.ret = Throw THEN [w |-> saved.w, ret |-> False]
    ELSE importUserData_settings(saved.w, data)

importUserData(w, data) ==
    IF data = Null \/ ~Has(data, "version") \/ data.version # "2.0.0"
    THEN [w |-> w, ret |-> False]
    ELSE IF Has(data, "userData") THEN importUserData_saved(saveUserData(w, data.userData), data)
    ELSE importUserData_settings(w, data)

\* -------------------------------------------------------- _handleStorageChange
\* _handleStorageChange without the reload of the changed record
_handleStorageChange_NoReload(w, event) ==
    IF event.key = userDataKey
    THEN IF event.removed
         THEN _triggerEvent([w EXCEPT !.cur = Null], "userLoggedOut", Null)
         ELSE _triggerEvent(w, "dataUpdated", w.cur)
    ELSE IF event.key = subscriptionKey
    THEN _triggerEvent(getUserData(w, TRUE).w, "subscriptionUpdated", Null)
    ELSE w

_handleStorageChange(w, event) ==
    IF event.key = userDataKey
    THEN IF event.removed
         THEN _triggerEvent([w EXCEPT !.cur = Null], "userLoggedOut", Null)
         ELSE LET g == getUserData([w EXCEPT !.cur = Null], TRUE) IN
              _triggerEvent(g.w, "dataUpdated", g.w.cur)
    ELSE IF event.key = subscriptionKey
    THEN _triggerEvent(getUserData(w, TRUE).w, "subscriptionUpdated", Null)
    ELSE w

\* --------------------------------------------------- other modules of the page
\* localStorage.setItem / removeItem called by a module other than the Manager
localStorage_setItem(w, key, value) ==
    [w EXCEPT !.storage[key] = value, !.sig = Signal(w, key, value)]

localStorage_removeItem(w, key) ==
    [w EXCEPT !.storage[key] = Null, !.sig = Signal(w, key, Null)]

\* EmiralPayment.updateUserSubscription: the stored record with the paid plan
updateUserSubscription_user(w, planId, currentUserData) ==
    localStorage_setItem(w, userDataKey,
                         Spread(currentUserData,
                                [planId |-> planId, plan |-> plans[planId].name]))

\* EmiralPayment.updateUserSubscription, called by handlePaymentSuccess
updateUserSubscription(w, planId) ==
    updateUserSubscription_user(
        localStorage_setItem(w, subscriptionKey,
                             [planId |-> planId, planName |-> plans[planId].name,
                              price |-> plans[planId].price, startDate |-> now,
                              status |-> "active"]),
        planId,
        IF w.storage[userDataKey] = Null THEN EmptyObject ELSE w.storage[userDataKey])

\* userDataManager.clearUserData (the header's logout)
userDataManager_clearUserData(w) == localStorage_removeItem(w, userDataKey)

\* ------------------------------------------------------------ userDataManager
\* userDataConfig.sessionDuration: 24 hours, one day
sessionDuration == 1

\* The fallback of userDataManager.saveUserData: the plan of an active stored
\* subscription or the free plan, a new session, and localStorage.setItem with
\* no validation
userDataManager_saveUserData_local(w, userData, subscription) ==
    [w |-> localStorage_setItem(
               w, userDataKey,
               [name |-> IF Has(userData, "name") THEN userData.name ELSE "",
                email |-> IF Has(userData, "email") THEN userData.email ELSE "",
                loginTime |-> now,
                sessionExpiry |-> now + sessionDuration,
                plan |-> IF Has(userData, "plan") THEN userData.plan
                         ELSE IF subscription # Null /\ Has(subscription, "status")
                                 /\ subscription.status = "active"
                                 /\ Has(subscription, "planName")
                              THEN subscription.planName
                         ELSE "Free Plan",
                planId |-> IF Has(userData, "planId") THEN userData.planId
                           ELSE IF subscription # Null /\ Has(subscription, "status")
                                   /\ subscription.status = "active"
                                   /\ Has(subscription, "planId")
                                THEN subscription.planId
                           ELSE "free"]),
     ret |-> True]

\* saved is what EmiralUserData.saveUserData(userData) gave: on true the
\* Manager's record is read and true returned, on false the fallback is taken;
\* an exception is caught
userDataManager_saveUserData_saved(saved, userData) ==
    IF saved.ret = True THEN [w |-> getUserData(saved.w, FALSE).w, ret |-> True]
    ELSE IF saved.ret = Throw THEN [w |-> saved.w, ret |-> False]
    ELSE userDataManager_saveUserData_local(saved.w, userData, saved.w.storage[subscriptionKey])

\* userDataManager.saveUserData, the save of apiHandler.login and signup
userDataManager_saveUserData(w, userData) ==
    userDataManager_saveUserData_saved(saveUserData(w, userData), userData)

\* The fallback of userDataManager.getUserData: the stored record, removed
\* when its session has expired
userDataManager_getUserData_local(w, userData) ==
    IF userData = Null THEN [w |-> w, ret |-> Null]
    ELSE IF Has(userData, "sessionExpiry") /\ userData.sessionExpiry < now
    THEN [w |-> localStorage_removeItem(w, userDataKey), ret |-> Null]
    ELSE [w |-> w, ret |-> userData]

userDataManager_getUserData_central(central) ==
    IF central.ret # Null THEN central
    ELSE userDataManager_getUserData_local(central.w, central.w.storage[userDataKey])

userDataManager_getUserData(w) ==
    userDataManager_getUserData_central(getUserData(w, FALSE))

\* userDataManager.updateUserData, which AuthPopups.updateUserData calls
userDataManager_updateUserData_current(current, updates) ==
    IF current.ret = Null THEN [w |-> current.w, ret |-> False]
    ELSE userDataManager_saveUserData(current.w, Spread(current.ret, updates))

userDataManager_updateUserData(w, updates) ==
    userDataManager_updateUserData_current(userDataManager_getUserData(w), updates)

\* EmiralPayment.processPayment: nothing while a payment is processing; else
\* the flag is set and the timer of the simulated payment started
processPayment(w, planId) ==
    IF w.payment.isProcessing THEN w
    ELSE [w EXCEPT !.payment = [isProcessing |-> TRUE, timer |-> planId]]

\* The timer fires: the simulated payment succeeds (allowTestMode) and
\* handlePaymentSuccess updates the subscription; isProcessing stays set
processPayment_timer(w) ==
    [updateUserSubscription(w, w.payment.timer) EXCEPT !.payment.timer = ""]

\* EmiralProfile.handleLogout: the record is removed and the page leaves for
\* main.html, where the Manager starts afresh
handleLogout(w) ==
    [localStorage_removeItem(w, userDataKey) EXCEPT !.cur = Null, !.queue = <<>>, !.sync = TRUE,
                                                     !.listeners = EmptyObject,
                                                     !.boot = Booted(w.access), !.payment = Idle]

\* ------------------------------------------------------------------- inputs
\* A session that ends before the clock's last day
SessionEnd == MaxTime - 1

Full == [name |-> "Ada Lovelace", email |-> "ada@example.com", planId |-> "pro"]
NameOnly == [name |-> "Ada Lovelace"]
Session == [sessionExpiry |-> SessionEnd]
BadEmail == [email |-> "bad-email"]
BadPlan == [planId |-> "gold"]

ValidPatches == {Full, NameOnly, Session}
InvalidPatches == {BadEmail, BadPlan, Null}

PlanInputs == {"pro", "gold"}
\* A plan id that is no catalog key but names an inherited member of the
\* catalog object, so that this.config.plans[id] is truthy
InheritedPlanInputs == {"constructor"}
FeatureInputs == {"canUseAPI"}
\* "" is falsy, as the default null is
MetricInputs == {"", "apiLimit"}
SettingsInputs == {[theme |-> "dark"]}
\* The plan a payment is made for
PaymentPlans == {"enterprise"}
\* The users a signup is made for, and the updates of AuthPopups.updateUserData
SignupInputs == {[name |-> "Ada Lovelace", email |-> "ada@example.com"],
                 [name |-> "Ada Lovelace", email |-> "bad-email"]}
UpdateInputs == {NameOnly, BadEmail, BadPlan}
\* The configurations init is called with: none, and the guide's prefix
ConfigInputs == {EmptyObject, [storage |-> [prefix |-> buyerPrefix]]}
\* Backups: of a format that is not accepted, with a valid record, and with
\* records that fail validation
ImportInputs ==
    {[version |-> "1.0.0", userData |-> Full],
     [version |-> "2.0.0", userData |-> Full, settings |-> [theme |-> "dark"]],
     [version |-> "2.0.0", userData |-> BadEmail, settings |-> [theme |-> "dark"]],
     [version |-> "2.0.0", userData |-> BadPlan]}
\* The events a page registers callbacks for
ListenedEvents == {"dataUpdated"}

\* ------------------------------------------------------------------ the steps
\* The pages of tabs have been loaded while localStorage answered as mode
InitIn(tabs, mode) ==
    /\ storage = [k \in StorageKeys |-> Null]
    /\ now = 0
    /\ currentUser = [t \in Tabs |-> Null]
    /\ offlineQueue = [t \in Tabs |-> <<>>]
    /\ syncInterval = [t \in Tabs |-> t \in tabs /\ initCompletes(mode)]
    /\ inbox = [t \in Tabs |-> <<>>]
    /\ open = tabs
    /\ access = mode
    /\ memoryStorage = [t \in Tabs |-> IF t \in tabs THEN _initializeStorage(mode) ELSE Null]
    /\ listeners = [t \in Tabs |-> EmptyObject]
    /\ boot = [t \in Tabs |-> Booted(mode)]
    /\ payment = [t \in Tabs |-> Idle]
    /\ last = [tab |-> "-", op |-> "init", arg |-> Null, ret |-> Undefined, ev |-> <<>>,
               calls |-> <<>>]

InitWith(tabs) == InitIn(tabs, "ok")

\* Tab t runs one call to completion: r is what the call returns, handled the
\* number of storage events it took from the tab's inbox.  The signals of its
\* writes are dispatched to the other open tabs.
Step(t, op, arg, r, handled) ==
    /\ t \in open
    /\ \A u \in open \ {t} : Len(inbox[u]) + Len(r.w.sig) <= MaxInbox
    /\ Len(r.w.queue) <= MaxQueue
    /\ storage' = r.w.storage
    /\ currentUser' = [currentUser EXCEPT ![t] = r.w.cur]
    /\ offlineQueue' = [offlineQueue EXCEPT ![t] = r.w.queue]
    /\ syncInterval' = [syncInterval EXCEPT ![t] = r.w.sync]
    /\ memoryStorage' = [memoryStorage EXCEPT ![t] = r.w.mem]
    /\ inbox' = [u \in Tabs |->
                    IF u = t THEN SubSeq(inbox[u], handled + 1, Len(inbox[u]))
                    ELSE IF u \in open THEN inbox[u] \o r.w.sig
                    ELSE inbox[u]]
    /\ listeners' = [listeners EXCEPT ![t] = r.w.listeners]
    /\ boot' = [boot EXCEPT ![t] = r.w.boot]
    /\ payment' = [payment EXCEPT ![t] = r.w.payment]
    /\ last' = [tab |-> t, op |-> op, arg |-> arg, ret |-> r.ret, ev |-> r.w.ev,
                calls |-> r.w.calls]
    /\ UNCHANGED <<now, open, access>>

GetUserData(t, forceRefresh) ==
    \E r \in {getUserData(World(t), forceRefresh)} :
        Step(t, "getUserData", [forceRefresh |-> forceRefresh], r, 0)

SaveUserData(t, data) ==
    \E r \in {saveUserData(World(t), data)} : Step(t, "saveUserData", data, r, 0)

UpdateUserPlan(t, planId, subscriptionData) ==
    \E r \in {updateUserPlan(World(t), planId, subscriptionData)} :
        Step(t, "updateUserPlan", [planId |-> planId, subscriptionData |-> subscriptionData],
             r, 0)

ClearUserData(t, clearSettings) ==
    \E w \in {clearUserData(World(t), clearSettings)} :
        Step(t, "clearUserData", [clearSettings |-> clearSettings],
             [w |-> w, ret |-> Undefined], 0)

IsLoggedIn(t) ==
    \E r \in {isLoggedIn(World(t))} : Step(t, "isLoggedIn", Null, r, 0)

HasAccess(t, feature) ==
    \E r \in {hasAccess(World(t), feature)} :
        Step(t, "hasAccess", [feature |-> feature], r, 0)

HasPlan(t, requiredPlan) ==
    \E r \in {hasPlan(World(t), requiredPlan)} :
        Step(t, "hasPlan", [requiredPlan |-> requiredPlan], r, 0)

GetUsageStats(t, metric) ==
    \E r \in {getUsageStats(World(t), metric)} :
        Step(t, "getUsageStats", [metric |-> metric], r, 0)

UpdateSettings(t, settings) ==
    \E r \in {updateSettings(World(t), settings)} :
        Step(t, "updateSettings", settings, r, 0)

ImportUserData(t, data) ==
    \E r \in {importUserData(World(t), data)} : Step(t, "importUserData", data, r, 0)

\* The 'storage' listener of tab t handles the oldest event dispatched to it
StorageEvent(t) ==
    /\ inbox[t] # <<>>
    /\ \E w \in {_handleStorageChange(World(t), Head(inbox[t]))} :
           Step(t, "storage", Head(inbox[t]), [w |-> w, ret |-> Undefined], 1)

\* A payment for plan planId has succeeded in tab t
HandlePaymentSuccess(t, planId) ==
    \E w \in {updateUserSubscription(World(t), planId)} :
        Step(t, "updateUserSubscription", [planId |-> planId],
             [w |-> w, ret |-> Undefined], 0)

\* Logout from the header of tab t
HeaderLogout(t) ==
    \E w \in {userDataManager_clearUserData(World(t))} :
        Step(t, "userDataManager.clearUserData", Null, [w |-> w, ret |-> Undefined], 0)

\* Logout from the profile page of tab t
ProfileLogout(t) ==
    \E w \in {handleLogout(World(t))} :
        Step(t, "handleLogout", Null, [w |-> w, ret |-> Undefined], Len(inbox[t]))

\* The browser starts to refuse localStorage calls while the pages are open
StorageFails(mode) ==
    /\ access = "ok"
    /\ access' = mode
    /\ last' = [tab |-> "-", op |-> "storageFails", arg |-> [mode |-> mode], ret |-> Undefined,
                ev |-> <<>>, calls |-> <<>>]
    /\ UNCHANGED <<storage, now, currentUser, offlineQueue, syncInterval, inbox, open,
                   memoryStorage, listeners, boot, payment>>

\* The 'online' event reaches tab t, navigator.onLine being true
Online(t) ==
    /\ \E w \in {_processOfflineQueue(World(t), TRUE)} :
           Step(t, "online", Null, [w |-> w, ret |-> Undefined], 0)

\* The page of tab t registers callback for event, or unsubscribes it
On(t, event, callback) ==
    \E w \in {on(World(t), event, callback)} :
        Step(t, "on", [event |-> event, callback |-> callback], [w |-> w, ret |-> Undefined], 0)

Off(t, event, callback) ==
    \E w \in {off(World(t), event, callback)} :
        Step(t, "off", [event |-> event, callback |-> callback], [w |-> w, ret |-> Undefined], 0)

\* A signup in tab t has succeeded for user
Signup(t, user) ==
    \E r \in {userDataManager_saveUserData(World(t), user)} :
        Step(t, "signup", user, r, 0)

\* AuthPopups.updateUserData(updates) in tab t
UpdateUserData(t, updates) ==
    \E r \in {userDataManager_updateUserData(World(t), updates)} :
        Step(t, "AuthPopups.updateUserData", updates, r, 0)

\* The page of tab t is loaded again and the script has run to its last line:
\* the automatic init() waits at its first await
Load(t) ==
    /\ t \in open
    /\ initCompletes(access)
    /\ currentUser' = [currentUser EXCEPT ![t] = Null]
    /\ offlineQueue' = [offlineQueue EXCEPT ![t] = <<>>]
    /\ syncInterval' = [syncInterval EXCEPT ![t] = FALSE]
    /\ memoryStorage' = [memoryStorage EXCEPT ![t] = _initializeStorage(access)]
    /\ inbox' = [inbox EXCEPT ![t] = <<>>]
    /\ listeners' = [listeners EXCEPT ![t] = EmptyObject]
    /\ boot' = [boot EXCEPT ![t] = [Booted(access) EXCEPT !.initialized = FALSE,
                                                         !.pending = <<1>>,
                                                         !.handlers = 0,
                                                         !.announced = 0]]
    /\ payment' = [payment EXCEPT ![t] = Idle]
    /\ last' = [tab |-> t, op |-> "load", arg |-> Null, ret |-> Undefined, ev |-> <<>>,
                calls |-> <<>>]
    /\ UNCHANGED <<storage, now, open, access>>

\* EmiralUserData.init(customConfig) is called in tab t.  A call that carries
\* a prefix is the buyer's, made from a later script: no call of init is
\* waiting at an await then
InitCall(t, customConfig) ==
    /\ Len(boot[t].pending) < MaxInits
    /\ Has(customConfig, "storage") => boot[t].pending = <<>>
    /\ \E r \in {init(World(t), customConfig)} : Step(t, "EmiralUserData.init", customConfig, r, 0)

\* A call of init waiting at an await in tab t is resumed
InitResume(t) ==
    /\ boot[t].pending # <<>>
    /\ \E w \in {init_resume(World(t))} :
           Step(t, "init.resume", Null, [w |-> w, ret |-> Undefined], 0)

\* The payment form of tab t is submitted for plan planId
ProcessPayment(t, planId) ==
    \E w \in {processPayment(World(t), planId)} :
        Step(t, "processPayment", [planId |-> planId], [w |-> w, ret |-> Undefined], 0)

\* The timer of the simulated payment of tab t fires
PaymentTimer(t) ==
    /\ payment[t].timer # ""
    /\ \E w \in {processPayment_timer(World(t))} :
           Step(t, "paymentTimer", [planId |-> payment[t].timer],
                [w |-> w, ret |-> Undefined], 0)

\* The page of tab t is loaded again: a fresh _state over the same storage
\* (init starts the sync timer; events still pending for the old page are lost)
Reload(t) ==
    /\ t \in open
    /\ currentUser' = [currentUser EXCEPT ![t] = Null]
    /\ offlineQueue' = [offlineQueue EXCEPT ![t] = <<>>]
    /\ syncInterval' = [syncInterval EXCEPT ![t] = initCompletes(access)]
    /\ memoryStorage' = [memoryStorage EXCEPT ![t] = _initializeStorage(access)]
    /\ inbox' = [inbox EXCEPT ![t] = <<>>]
    /\ last' = [tab |-> t, op |-> "reload", arg |-> Null, ret |-> Undefined,
                ev |-> IF initCompletes(access)
                       THEN <<[name |-> "initialized", data |-> Null]>> ELSE <<>>,
                calls |-> <<>>]
    /\ listeners' = [listeners EXCEPT ![t] = EmptyObject]
    /\ boot' = [boot EXCEPT ![t] = Booted(access)]
    /\ payment' = [payment EXCEPT ![t] = Idle]
    /\ UNCHANGED <<storage, now, open, access>>

Tick ==
    /\ now < MaxTime
    /\ now' = now + 1
    /\ last' = [tab |-> "-", op |-> "tick", arg |-> Null, ret |-> Undefined, ev |-> <<>>,
                calls |-> <<>>]
    /\ UNCHANGED <<storage, currentUser, offlineQueue, syncInterval, inbox, open, access,
                   memoryStorage, listeners, boot, payment>>

\* ---------------------------------------------------------- specifications
\* One page: the record's life cycle.  Plan ids are a catalog id and an id the
\* catalog object does not answer to; ids naming an inherited member of that
\* object are given in SpecInvalid.
Init == InitWith({"A"})

Next ==
    \/ Tick
    \/ \E t \in Tabs, forceRefresh \in BOOLEAN : GetUserData(t, forceRefresh)
    \/ \E t \in Tabs, data \in ValidPatches : SaveUserData(t, data)
    \/ \E t \in Tabs, planId \in PlanInputs : UpdateUserPlan(t, planId, Null)
    \/ \E t \in Tabs, clearSettings \in BOOLEAN : ClearUserData(t, clearSettings)
    \/ \E t \in Tabs, settings \in SettingsInputs : UpdateSettings(t, settings)
    \/ \E t \in Tabs : Reload(t)

Spec == Init /\ [][Next]_vars

\* One page: the pure reads after saves, plan changes and reloads
NextReads ==
    \/ \E t \in Tabs, forceRefresh \in BOOLEAN : GetUserData(t, forceRefresh)
    \/ \E t \in Tabs, data \in ValidPatches : SaveUserData(t, data)
    \/ \E t \in Tabs, planId \in PlanInputs : UpdateUserPlan(t, planId, Null)
    \/ \E t \in Tabs : ClearUserData(t, FALSE)
    \/ \E t \in Tabs : IsLoggedIn(t)
    \/ \E t \in Tabs, feature \in FeatureInputs : HasAccess(t, feature)
    \/ \E t \in Tabs, requiredPlan \in PlanInputs \cup {"free"} : HasPlan(t, requiredPlan)
    \/ \E t \in Tabs, metric \in MetricInputs : GetUsageStats(t, metric)
    \/ \E t \in Tabs : Reload(t)

SpecReads == Init /\ [][NextReads]_vars

\* One page: saves that fail validation
NextInvalid ==
    \/ \E t \in Tabs, forceRefresh \in BOOLEAN : GetUserData(t, forceRefresh)
    \/ \E t \in Tabs, data \in {Full} \cup InvalidPatches : SaveUserData(t, data)
    \/ \E t \in Tabs, planId \in PlanInputs \cup InheritedPlanInputs :
           UpdateUserPlan(t, planId, Null)
    \/ \E t \in Tabs, settings \in SettingsInputs : UpdateSettings(t, settings)
    \/ \E t \in Tabs, data \in ImportInputs : ImportUserData(t, data)
    \/ \E t \in Tabs : Reload(t)

SpecInvalid == Init /\ [][NextInvalid]_vars

\* Two pages over one storage area: tab A writes, tab B follows its signals
InitTabs == InitWith(Tabs)

NextTabs ==
    \/ Tick
    \/ \E t \in Tabs, forceRefresh \in BOOLEAN : GetUserData(t, forceRefresh)
    \/ \E data \in {Full, Session} : SaveUserData("A", data)
    \/ ClearUserData("A", FALSE)
    \/ \E t \in Tabs : StorageEvent(t)

SpecTabs == InitTabs /\ [][NextTabs]_vars

\* -------------------------------------------------------------- properties
\* The expiry a returned record carries: sessionExpiry, or session.expiresAt
\* once the record has been enriched
IsExpired(r) ==
    \/ Has(r, "sessionExpiry") /\ r.sessionExpiry < now
    \/ Has(r, "session") /\ Has(r.session, "expiresAt") /\ r.session.expiresAt < now

Emitted(ev, eventName) == \E i \in 1..Len(ev) : ev[i].name = eventName

\* C1: getUserData never returns a record whose sessionExpiry is strictly
\* earlier than the current time, cached reads included; a read that meets an
\* expired session returns null and leaves no expired record in storage.
C1_NoExpiredRecordIsRead ==
    last.op = "getUserData" =>
        /\ last.ret # Null => ~IsExpired(last.ret)
        /\ storage[userDataKey] # Null => ~IsExpired(storage[userDataKey])

\* The Subscription updateUserPlan(p) builds by default
IsNewSubscription(sub, p) ==
    /\ sub # Null
    /\ Has(sub, "planId") /\ sub.planId = p
    /\ Has(sub, "status") /\ sub.status = "active"
    /\ Has(sub, "startDate") /\ sub.startDate = now
    /\ Has(sub, "endDate")
    /\ sub.endDate = now + (IF p = "free" THEN FreePlanDays ELSE PaidPlanDays)

ReportsSubscription(r, p) ==
    /\ r # Null
    /\ Has(r, "subscription")
    /\ IsNewSubscription(Omit(r.subscription, {"daysRemaining", "isExpiringSoon",
                                               "isExpired", "features"}), p)

\* C2: when a user is loaded and p is a catalog plan, updateUserPlan(p) returns
\* true, the Subscription then stored has planId p and status "active" with the
\* default dates, and getUserData(true) reports that subscription.
C2_PlanUpdateIsStored ==
    [][\A t \in Tabs, p \in DOMAIN plans :
          (/\ last'.op = "updateUserPlan" /\ last'.tab = t
           /\ last'.arg.planId = p /\ last'.arg.subscriptionData = Null
           /\ getUserData(World(t), FALSE).ret # Null)
          => /\ last'.ret = True
             /\ IsNewSubscription(storage'[subscriptionKey], p)
             /\ (ReportsSubscription(getUserData(World(t), TRUE).ret, p))']_vars

\* The enrichment a record read back must carry
IsEnriched(r) ==
    /\ Has(r, "planId") /\ r.planId \in DOMAIN plans
    /\ Has(r, "plan") /\ r.plan = plans[r.planId].name
    /\ Has(r, "usage")
    /\ Has(r, "permissions")
    /\ r.planId = "pro" => r.permissions.canUseAPI
    /\ Has(r, "subscription")

\* C3: after saveUserData(x) with a valid patch x, the first save on an empty
\* store included, getUserData() returns a record holding every field of x and
\* the enrichment: plan name of its planId, usage, permissions, subscription.
C3_SaveThenReadIsEnriched ==
    (last.op = "saveUserData" /\ _validateUserData(last.arg)) =>
        LET r == getUserData(World(last.tab), FALSE).ret IN
        /\ r # Null
        /\ \A f \in DOMAIN last.arg : Has(r, f) /\ r[f] = last.arg[f]
        /\ IsEnriched(r)

\* A patch that is no object, has a malformed email or a planId outside the catalog
FailsValidation(x) ==
    \/ x = Null
    \/ Has(x, "email") /\ ~_isValidEmail(x.email)
    \/ Has(x, "planId") /\ x.planId \notin DOMAIN plans

\* C4: saveUserData of a patch that fails validation returns false and persists
\* nothing: every storage key and the cache are as before the call.
C4_RejectedSaveChangesNothing ==
    [][(last'.op = "saveUserData" /\ FailsValidation(last'.arg))
       => (last'.ret = False /\ storage' = storage /\ currentUser' = currentUser)]_vars

\* C5: no public operation throws to its caller, hasAccess and getUsageStats
\* right after a first saveUserData included.
C5_NoOperationThrows == last.ret # Throw

\* C6: updateUserPlan(p) returns false, leaves the stored Subscription and the
\* stored user record unchanged and emits no planChanged when p is not a catalog
\* plan or no user is loaded.
C6_RejectedPlanChangesNothing ==
    [][\A t \in Tabs :
          (/\ last'.op = "updateUserPlan" /\ last'.tab = t
           /\ \/ last'.arg.planId \notin DOMAIN plans
              \/ getUserData(World(t), FALSE).ret = Null)
          => /\ last'.ret = False
             /\ storage'[subscriptionKey] = storage[subscriptionKey]
             /\ storage'[userDataKey] = storage[userDataKey]
             /\ ~Emitted(last'.ev, "planChanged")]_vars

\* C7: once clearUserData() has returned, getUserData() returns null and
\* isLoggedIn() returns false, for cached and forced reads alike.
C7_ClearedMeansLoggedOut ==
    last.op = "clearUserData" =>
        /\ \A forceRefresh \in BOOLEAN :
               getUserData(World(last.tab), forceRefresh).ret = Null
        /\ isLoggedIn(World(last.tab)).ret = False

\* A page cleared its user while settings written earlier stay stored
C7_Witness ==
    /\ last.op = "clearUserData"
    /\ ~last.arg.clearSettings
    /\ storage[settingsKey] # Null
    /\ storage[userDataKey] = Null
    /\ Emitted(last.ev, "userLoggedOut")

\* C8: for a loaded user on plan u and a catalog plan m, hasPlan(m) is true
\* exactly when u is at or above m in free < basic < pro < enterprise; a user
\* saved without a planId counts as free.
C8_HasPlanFollowsPlanOrder ==
    (/\ last.op = "hasPlan"
     /\ currentUser[last.tab] # Null
     /\ last.arg.requiredPlan \in DOMAIN plans)
    => LET user == currentUser[last.tab]
           u == IF Has(user, "planId") THEN user.planId ELSE "free"
       IN last.ret = Bool(indexOf(planHierarchy, u) >=
                          indexOf(planHierarchy, last.arg.requiredPlan))

\* The record r shows the fields of patch x (the session's end as expiresAt)
Reflects(r, x) ==
    /\ r # Null
    /\ \A f \in DOMAIN x :
           IF f = "sessionExpiry"
           THEN Has(r, "session") /\ Has(r.session, "expiresAt") /\ r.session.expiresAt = x[f]
           ELSE Has(r, f) /\ r[f] = x[f]

C20_ClearKeepsSettings ==
    [][/\ \A t \in Tabs :
              (last'.op = "clearUserData" /\ last'.tab = t)
              => /\ storage'[userDataKey] = Null
                 /\ storage'[subscriptionKey] = Null
                 /\ currentUser'[t] = Null
                 /\ Emitted(last'.ev, "userLoggedOut")
                 /\ storage'[settingsKey] =
                        IF last'.arg.clearSettings THEN Null ELSE storage[settingsKey]
       /\ (storage[settingsKey] # Null /\ storage'[settingsKey] = Null)
          => (last'.op = "clearUserData" /\ last'.arg.clearSettings)]_vars

\* A logged-in page with stored settings has logged out and kept them
C20_Witness ==
    /\ last.op = "clearUserData"
    /\ ~last.arg.clearSettings
    /\ storage[settingsKey] # Null
    /\ Has(storage[settingsKey], "theme")
    /\ currentUser[last.tab] = Null
    /\ ~syncInterval[last.tab]

\* C14: the value stored under the subscription key never holds the derived
\* fields daysRemaining, isExpiringSoon or isExpired, and the value stored under
\* the user_data key never holds the enrichment planData or session.
C14_NoDerivedFieldStored ==
    /\ storage[subscriptionKey] # Null
       => DOMAIN storage[subscriptionKey]
              \cap {"daysRemaining", "isExpiringSoon", "isExpired"} = {}
    /\ storage[userDataKey] # Null
       => DOMAIN storage[userDataKey] \cap {"planData", "session"} = {}

\* C15: the periodic sync timer is installed whenever a user is logged in and
\* is not installed after logout: clearUserData cancels it and a later
\* saveUserData in the same page installs it again.
C15_TimerFollowsLogin ==
    /\ \A t \in open : currentUser[t] # Null => syncInterval[t]
    /\ last.op = "clearUserData" => ~syncInterval[last.tab]

\* -------------------------------------------------------------- specifications
\* One page: the Manager next to the payment, header and profile modules
NextModules ==
    \/ Tick
    \/ \E t \in Tabs, forceRefresh \in BOOLEAN : GetUserData(t, forceRefresh)
    \/ \E t \in Tabs, data \in {Full, NameOnly} : SaveUserData(t, data)
    \/ \E t \in Tabs, planId \in PaymentPlans : HandlePaymentSuccess(t, planId)
    \/ \E t \in Tabs : HeaderLogout(t)
    \/ \E t \in Tabs : ProfileLogout(t)
    \/ \E t \in Tabs : Reload(t)

SpecModules == Init /\ [][NextModules]_vars

\* C11: every write or removal of the user_data and subscription keys goes
\* through the Manager, so its cache agrees with storage after another module
\* acted: after a payment for plan p, and after a logout from the header or the
\* profile page, getUserData() reflects the change.
C11_ManagerSeesOtherModules ==
    /\ last.op = "updateUserSubscription"
       => LET r == getUserData(World(last.tab), FALSE).ret IN
          /\ r # Null
          /\ Has(r, "planId") /\ r.planId = last.arg.planId
          /\ Has(r, "subscription") /\ r.subscription.planId = last.arg.planId
    /\ last.op \in {"userDataManager.clearUserData", "handleLogout"}
       => getUserData(World(last.tab), FALSE).ret = Null

\* One page whose localStorage may refuse calls, from the start (the probe of
\* _initializeStorage fails) or from some moment on
InitStorage == \E mode \in AccessModes : InitIn({"A"}, mode)

NextStorage ==
    \/ \E t \in Tabs, forceRefresh \in BOOLEAN : GetUserData(t, forceRefresh)
    \/ \E t \in Tabs, data \in {Full, NameOnly} : SaveUserData(t, data)
    \/ \E t \in Tabs : ClearUserData(t, FALSE)
    \/ \E t \in Tabs : Reload(t)
    \/ \E mode \in AccessModes \ {"ok"} : StorageFails(mode)

SpecStorage == InitStorage /\ [][NextStorage]_vars

\* C12: localStorage starts to refuse writes while the page is open (the probe at
\* init had passed): a saveUserData(x) that returns true is followed by a
\* getUserData(true) that returns a record reflecting x.
C12_SaveSurvivesWriteFailure ==
    \A t \in Tabs :
        (last.op = "saveUserData" /\ last.tab = t /\ last.ret = True
         /\ memoryStorage[t] = Null)
        => Reflects(getUserData(World(t), TRUE).ret, last.arg)

\* C13: the probe at init failed, so the page keeps its data in the in-memory
\* map: a saveUserData(x) that returns true is followed by a getUserData(true)
\* that returns a record reflecting x.
C13_MemoryStorageServesReads ==
    \A t \in Tabs :
        (last.op = "saveUserData" /\ last.tab = t /\ last.ret = True
         /\ memoryStorage[t] # Null)
        => Reflects(getUserData(World(t), TRUE).ret, last.arg)

\* One page with saves that fail validation and the browser's 'online' events,
\* of which the page is never starved
NextQueue ==
    \/ Tick
    \/ \E t \in Tabs, forceRefresh \in BOOLEAN : GetUserData(t, forceRefresh)
    \/ \E t \in Tabs, data \in {Full, BadEmail, BadPlan} : SaveUserData(t, data)
    \/ \E t \in Tabs : Online(t)
    \/ \E t \in Tabs : Reload(t)

SpecQueue == Init /\ [][NextQueue]_vars /\ WF_vars(\E t \in Tabs : Online(t))

\* C16: whenever a page holds queued writes or the offline_queue key is stored,
\* the 'online' events to come lead to a state where the page's queue is empty
\* and the key is gone.
C16_QueueDrains ==
    \A t \in Tabs :
        (t \in open /\ (offlineQueue[t] # <<>> \/ storage[offlineQueueKey] # Null))
        ~> (offlineQueue[t] = <<>> /\ storage[offlineQueueKey] = Null)

\* Two pages over one storage area: tab A writes the record and the settings,
\* tab B follows its signals
NextConverge ==
    \/ \E t \in Tabs, forceRefresh \in BOOLEAN : GetUserData(t, forceRefresh)
    \/ \E data \in {Full, NameOnly} : SaveUserData("A", data)
    \/ \E settings \in SettingsInputs : UpdateSettings("A", settings)
    \/ \E t \in Tabs : StorageEvent(t)

SpecConverge == InitTabs /\ [][NextConverge]_vars

\* The fields of the record on which the tabs are to agree
SharedFields == {"name", "email", "planId", "subscription", "settings"}

\* Records a and b agree on field f whenever both carry it
Agree(a, b, f) == (Has(a, f) /\ Has(b, f)) => a[f] = b[f]

\* C17: once no storage event is pending in any tab, the records that
\* getUserData() returns in tabs A and B, when both return one, agree on the
\* user fields, the subscription and the settings.
C17_TabsConverge ==
    (\A t \in Tabs : inbox[t] = <<>>)
    => \E a \in {getUserData(World("A"), FALSE).ret},
          b \in {getUserData(World("B"), FALSE).ret} :
           (a # Null /\ b # Null) => \A f \in SharedFields : Agree(a, b, f)

\* C18: after a saveUserData that returned true, the refresh handler of each UI
\* module (dashboard, profile page, payment) has been invoked: the events the
\* save emitted include one of the type the module listens on.
C18_ModulesAreRefreshed ==
    (last.op = "saveUserData" /\ last.ret = True)
    => \A m \in DOMAIN windowListeners : refreshed(m, last.ev)

\* One page that registers and unsubscribes callbacks between its saves
NextListeners ==
    \/ \E t \in Tabs, event \in ListenedEvents, callback \in DOMAIN Callbacks :
           On(t, event, callback)
    \/ \E t \in Tabs, event \in ListenedEvents, callback \in DOMAIN Callbacks :
           Off(t, event, callback)
    \/ \E t \in Tabs, data \in {Full, BadEmail} : SaveUserData(t, data)
    \/ \E t \in Tabs : GetUserData(t, TRUE)
    \/ \E t \in Tabs : Reload(t)

SpecListeners == Init /\ [][NextListeners]_vars

\* The callbacks registered in world w for eventName, in registration order
RegisteredFor(w, eventName) ==
    IF Has(w.listeners, eventName) THEN w.listeners[eventName] ELSE <<>>

\* The callbacks called for eventName, in the order of the calls
CalledFor(calls, eventName) ==
    LET selected == SelectSeq(calls, LAMBDA c : c.event = eventName) IN
    [i \in 1..Len(selected) |-> selected[i].callback]

\* No callback registered before c unsubscribes c
KeptUntilItsTurn(registered, c) ==
    ~ \E i, j \in 1..Len(registered) :
          i < j /\ registered[j] = c /\ Callbacks[registered[i]].unsubscribes = c

\* World w with no callback registered
Quiet(w) == [w EXCEPT !.listeners = EmptyObject]

C27_UnknownPlanGrantsNothing ==
    (/\ last.op = "hasPlan"
     /\ currentUser[last.tab] # Null
     /\ last.arg.requiredPlan \notin DOMAIN plans)
    => last.ret = False

\* The plan fields of record r are those of the catalog entry of its planId
IsOfCatalogPlan(r) ==
    /\ Has(r, "planId") /\ r.planId \in DOMAIN plans
    /\ Has(r, "plan") /\ r.plan = plans[r.planId].name
    /\ Has(r, "planData") /\ r.planData = plans[r.planId]
    /\ Has(r, "permissions") /\ r.permissions = _getPermissions(r.planId)
    /\ Has(r, "usage") /\ Has(r.usage, "apiLimit")
    /\ r.usage.apiLimit = plans[r.planId].apiLimit

\* C26: every record getUserData returns has a planId that is a Plan Catalog
\* key, with the plan, planData, permissions and usage of that entry.
C26_ReturnedPlanIsOfCatalog ==
    (last.op = "getUserData" /\ last.ret # Null) => IsOfCatalogPlan(last.ret)

\* C25: a saveUserData whose patch has neither a subscription nor a settings
\* key leaves the values stored under the subscription and settings keys as
\* they were.
C25_SaveKeepsSubscriptionAndSettings ==
    [][(/\ last'.op = "saveUserData"
        /\ last'.arg # Null
        /\ ~Has(last'.arg, "subscription")
        /\ ~Has(last'.arg, "settings"))
       => /\ storage'[subscriptionKey] = storage[subscriptionKey]
          /\ storage'[settingsKey] = storage[settingsKey]]_vars

\* C22: importUserData of a backup of version 2.0.0 whose userData fails
\* validation returns false and leaves the stored record unchanged.
C22_RejectedImportReturnsFalse ==
    [][(/\ last'.op = "importUserData"
        /\ last'.arg.version = "2.0.0"
        /\ ~_validateUserData(last'.arg.userData))
       => /\ last'.ret = False
          /\ storage'[userDataKey] = storage[userDataKey]]_vars

\* Two pages over one storage area, both saving patches on disjoint fields
NextRace ==
    \/ \E t \in Tabs, data \in {NameOnly, Session} : SaveUserData(t, data)
    \/ \E t \in Tabs : GetUserData(t, FALSE)
    \/ \E t \in Tabs : StorageEvent(t)

SpecRace == InitTabs /\ [][NextRace]_vars

\* The stored record carries the fields of patch x
Carries(record, x) ==
    /\ record # Null
    /\ \A f \in DOMAIN x : Has(record, f) /\ record[f] = x[f]

Stored(x) == Carries(storage[userDataKey], x)

\* C24: two saveUserData calls issued one after the other in one tab, with
\* patches on disjoint fields, leave a stored record that carries both patches.
C24_SequentialSavesKeepBothPatches ==
    [][\A t \in Tabs :
           (/\ last.op = "saveUserData" /\ last.tab = t /\ last.ret = True
            /\ last'.op = "saveUserData" /\ last'.tab = t /\ last'.ret = True
            /\ DOMAIN last.arg \cap DOMAIN last'.arg = {})
           => /\ Carries(storage'[userDataKey], last.arg)
              /\ Carries(storage'[userDataKey], last'.arg)]_vars

\* Tab A has saved a name; tab B, whose storage-change handler has not run yet
\* and whose cache is older than that write, has then saved a session: the
\* stored record has lost the name
C24_Witness ==
    /\ last.op = "saveUserData" /\ last.tab = "B" /\ last.ret = True
    /\ last.arg = Session
    /\ currentUser["A"] # Null /\ Reflects(currentUser["A"], NameOnly)
    /\ \E i \in 1..Len(inbox["B"]) : inbox["B"][i].key = userDataKey
    /\ Stored(Session)
    /\ ~Has(storage[userDataKey], "name")

\* One page: signup and profile updates through AuthPopups next to the Manager
NextAuth ==
    \/ \E t \in Tabs, user \in SignupInputs : Signup(t, user)
    \/ \E t \in Tabs, updates \in UpdateInputs : UpdateUserData(t, updates)
    \/ \E t \in Tabs, forceRefresh \in BOOLEAN : GetUserData(t, forceRefresh)
    \/ \E t \in Tabs : ClearUserData(t, FALSE)
    \/ \E t \in Tabs : Reload(t)

SpecAuth == Init /\ [][NextAuth]_vars

\* C23: AuthPopups.updateUserData and the signup save, given a malformed email
\* or an unknown planId, return false and leave the user_data key unchanged.
C23_EntryPointsValidate ==
    [][(/\ last'.op \in {"signup", "AuthPopups.updateUserData"}
        /\ FailsValidation(last'.arg))
       => /\ last'.ret = False
          /\ storage'[userDataKey] = storage[userDataKey]]_vars

\* C29: after a successful signup the stored record carries loginTime and a
\* sessionExpiry sessionDuration later, whichever path saved it.
C29_LoginStoresSession ==
    (last.op = "signup" /\ last.ret = True)
    => /\ storage[userDataKey] # Null
       /\ Has(storage[userDataKey], "loginTime")
       /\ Has(storage[userDataKey], "sessionExpiry")
       /\ storage[userDataKey].sessionExpiry
              = storage[userDataKey].loginTime + sessionDuration

\* One page from the moment its script has run: the automatic init and later
\* calls of init, next to the operations on the record
NextInit ==
    \/ \E t \in Tabs : Load(t)
    \/ \E t \in Tabs, customConfig \in ConfigInputs : InitCall(t, customConfig)
    \/ \E t \in Tabs : InitResume(t)
    \/ \E t \in Tabs, data \in {Full} : SaveUserData(t, data)
    \/ \E t \in Tabs : GetUserData(t, TRUE)
    \/ \E t \in Tabs : ClearUserData(t, FALSE)

SpecInit == Init /\ [][NextInit]_vars

\* C21: once the buyer's init({storage: {prefix: P}}) has resolved, the Manager
\* uses the prefix P for its keys.
C21_BuyerPrefixTakesEffect ==
    (/\ last.op = "EmiralUserData.init"
     /\ Has(last.arg, "storage")
     /\ last.ret = Undefined)
    => boot[last.tab].prefix = last.arg.storage.prefix

\* C28: however init is called, the listeners of _setupEventListeners are
\* registered at most once, no interval runs besides the one _state.syncInterval
\* holds, and initialized is announced at most once.
C28_InitIsIdempotent ==
    \A t \in Tabs :
        /\ boot[t].handlers <= 1
        /\ boot[t].leaked = 0
        /\ boot[t].announced <= 1

\* One page: simulated payments next to logins and logouts
NextPayment ==
    \/ \E t \in Tabs, data \in {Full} : SaveUserData(t, data)
    \/ \E t \in Tabs, forceRefresh \in BOOLEAN : GetUserData(t, forceRefresh)
    \/ \E t \in Tabs, planId \in PaymentPlans : ProcessPayment(t, planId)
    \/ \E t \in Tabs : PaymentTimer(t)
    \/ \E t \in Tabs : ClearUserData(t, FALSE)
    \/ \E t \in Tabs : Reload(t)

SpecPayment == Init /\ [][NextPayment]_vars

\* C30: when the timer of a payment that was in flight at logout fires right
\* after clearUserData() has completed, no user record and no subscription
\* is created and getUserData() still returns null.
C30_LogoutOutlivesPayment ==
    [][\A t \in Tabs :
           (/\ last.op = "clearUserData" /\ last.tab = t
            /\ last'.op = "paymentTimer" /\ last'.tab = t)
           => /\ storage'[userDataKey] = Null
              /\ storage'[subscriptionKey] = Null
              /\ (getUserData(World(t), FALSE).ret = Null)']_vars

====
